---- MODULE Spec2Model ----
(***************************************************************************)
(* Smart Task Manager (src/app.py): the tasks table, the data-layer        *)
(* functions add_task / complete_task / delete_task that write it, and the *)
(* derived metrics read from it: get_productivity_stats, get_streak_data   *)
(* and get_smart_recommendations; the users and categories tables written  *)
(* by register_user, the habits and habit_logs tables, the goals table and *)
(* the session state that selects the page.                                *)
(*                                                                         *)
(* Conventions.                                                            *)
(*  - A date is a day number; the code stores date.isoformat() as TEXT and *)
(*    compares the strings, which orders ISO dates chronologically.        *)
(*  - A nullable SQL value is a sequence of length <= 1: NULL is <<>>,     *)
(*    the value v is <<v>>.                                                *)
(*  - A float that the code obtains as a quotient of two integers is kept  *)
(*    as the fraction [num, den] with den > 0, and compared with the       *)
(*    literals 0.6, 0.8 and 1.5 by cross-multiplication.                   *)
(*  - The operations are the data-layer functions with the parameters of   *)
(*    their signatures.                                                    *)
(***************************************************************************)
EXTENDS Integers, Sequences, FiniteSets, TLC

VARIABLES
    tasks, next_task_id,            \* tasks table and its AUTOINCREMENT counter
    users, next_user_id,            \* users table
    categories,                     \* categories table
    habits, next_habit_id,          \* habits table
    habit_logs, next_log_id,        \* habit_logs table
    goals, next_goal_id,            \* goals table
    session,                        \* st.session_state: user_id, username, page
    clock,                          \* the day date.today() returns
    rendered                        \* value returned by the last analytics call
                                    \* made since the last write, NULL if none

task_vars == <<tasks, next_task_id>>

account_vars == <<users, next_user_id, categories>>

habit_vars == <<habits, next_habit_id, habit_logs, next_log_id>>

goal_vars == <<goals, next_goal_id>>

stored_vars == <<task_vars, account_vars, habit_vars, goal_vars>>

vars == <<task_vars, account_vars, habit_vars, goal_vars, session, clock, rendered>>

-----------------------------------------------------------------------------
(* Bounds of the exploration *)

MaxTasks == 3

MaxRateTasks == 5

MaxInvalidTasks == 3

MaxHabits == 1

MaxStreak == 2

MaxLogs == 2

MaxReadTasks == 2

MaxGoals == 1

-----------------------------------------------------------------------------
(* Program constants and input sets *)

Today == 9

StatsDays == 7

StreakLimit == 30

NULL == <<>>

Users == {1, 2}

Dates == {Today - StatsDays, Today - 1, Today, Today + 1}

EstimatedDurations == {30}

ActualDurations == {NULL, <<45>>, <<60>>}

Usernames == {"demo", "alice", "bob"}

Passwords == {"demo123", "pw"}

Emails == {"demo@example.com"}

HabitUsers == {1}

HabitDates == {Today - 1, Today}

Notes == {"", "note"}

-----------------------------------------------------------------------------
(* Generic helpers for the SQL the code issues *)

RECURSIVE SumSeq(_)
SumSeq(s) == IF s = <<>> THEN 0 ELSE s[1] + SumSeq(Tail(s))

RECURSIVE DistinctDates(_)
DistinctDates(rows) ==
    IF rows = <<>> THEN <<>>
    ELSE LET before == DistinctDates(SubSeq(rows, 1, Len(rows) - 1))
             d == rows[Len(rows)].date
         IN  IF \E i \in 1..Len(before) : before[i] = d
             THEN before ELSE Append(before, d)

RECURSIVE InsertByDate(_, _, _)
InsertByDate(r, s, desc) ==
    IF s = <<>> THEN <<r>>
    ELSE IF (desc /\ r.date > s[1].date) \/ (~desc /\ r.date < s[1].date)
         THEN <<r>> \o s
         ELSE <<s[1]>> \o InsertByDate(r, Tail(s), desc)

RECURSIVE SortByDate(_, _)
SortByDate(s, desc) ==
    IF s = <<>> THEN <<>>
    ELSE InsertByDate(s[1], SortByDate(Tail(s), desc), desc)

Limit(s, n) == SubSeq(s, 1, IF Len(s) < n THEN Len(s) ELSE n)

-----------------------------------------------------------------------------
(* State *)

TaskRow(id, user_id, date_, estimated_duration) ==
    [id |-> id, user_id |-> user_id, completed |-> 0, date |-> date_,
     estimated_duration |-> estimated_duration, actual_duration |-> NULL]

Init ==
    /\ tasks = <<>>
    /\ next_task_id = 1
    /\ users = <<>>
    /\ next_user_id = 1
    /\ categories = <<>>
    /\ habits = <<>>
    /\ next_habit_id = 1
    /\ habit_logs = <<>>
    /\ next_log_id = 1
    /\ goals = <<>>
    /\ next_goal_id = 1
    /\ session = [user_id |-> NULL, username |-> NULL, page |-> "login"]
    /\ clock = Today
    /\ rendered = NULL

-----------------------------------------------------------------------------
(* Writers *)

add_task(user_id, date_, estimated_duration) ==
    /\ tasks' = Append(tasks, TaskRow(next_task_id, user_id, date_, estimated_duration))
    /\ next_task_id' = next_task_id + 1
    /\ rendered' = NULL
    /\ UNCHANGED <<account_vars, habit_vars, goal_vars, session, clock>>

complete_task(task_id, actual_duration) ==
    /\ tasks' = [i \in 1..Len(tasks) |->
                    IF tasks[i].id = task_id
                    THEN [tasks[i] EXCEPT !.completed = 1,
                                          !.actual_duration = actual_duration]
                    ELSE tasks[i]]
    /\ rendered' = NULL
    /\ UNCHANGED <<next_task_id, account_vars, habit_vars, goal_vars, session, clock>>

delete_task(task_id) ==
    /\ tasks' = SelectSeq(tasks, LAMBDA t : t.id # task_id)
    /\ rendered' = NULL
    /\ UNCHANGED <<next_task_id, account_vars, habit_vars, goal_vars, session, clock>>

IssuedTaskIds == 1..(next_task_id - 1)

AddTask ==
    /\ next_task_id <= MaxTasks
    /\ \E u \in Users, d \in Dates, e \in EstimatedDurations : add_task(u, d, e)

CompleteTask ==
    \E id \in IssuedTaskIds : complete_task(id, NULL)

DeleteTask ==
    \E id \in IssuedTaskIds : delete_task(id)

-----------------------------------------------------------------------------
(* get_productivity_stats: one row per date of the window that has a task *)

stats_rows_ungrouped_completed(db, user_id, days) ==
    LET end_date == Today
        start_date == end_date - (days - 1)
        sel == SelectSeq(db, LAMBDA t : /\ t.user_id = user_id
                                        /\ t.date >= start_date
                                        /\ t.date <= end_date)
        dates == DistinctDates(sel)
        grp(d) == SelectSeq(sel, LAMBDA t : t.date = d)
        row(d) ==
            [date |-> d,
             total_tasks |-> Len(grp(d)),
             completed_tasks |->
                 SumSeq([i \in 1..Len(sel) |->
                            IF sel[i].completed = 1 THEN 1 ELSE 0]),
             planned_time |->
                 SumSeq([i \in 1..Len(grp(d)) |-> grp(d)[i].estimated_duration]),
             actual_time |->
                 SumSeq([i \in 1..Len(grp(d)) |->
                            IF grp(d)[i].actual_duration # NULL
                            THEN grp(d)[i].actual_duration[1] ELSE 0])]
    IN  SortByDate([i \in 1..Len(dates) |-> row(dates[i])], FALSE)

stats_rows(db, user_id, days) ==
    LET end_date == Today
        start_date == end_date - (days - 1)
        sel == SelectSeq(db, LAMBDA t : /\ t.user_id = user_id
                                        /\ t.date >= start_date
                                        /\ t.date <= end_date)
        dates == DistinctDates(sel)
        grp(d) == SelectSeq(sel, LAMBDA t : t.date = d)
        row(d) ==
            [date |-> d,
             total_tasks |-> Len(grp(d)),
             completed_tasks |->
                 SumSeq([i \in 1..Len(grp(d)) |->
                            IF grp(d)[i].completed = 1 THEN 1 ELSE 0]),
             planned_time |->
                 SumSeq([i \in 1..Len(grp(d)) |-> grp(d)[i].estimated_duration]),
             actual_time |->
                 SumSeq([i \in 1..Len(grp(d)) |->
                            IF grp(d)[i].actual_duration # NULL
                            THEN grp(d)[i].actual_duration[1] ELSE 0])]
    IN  SortByDate([i \in 1..Len(dates) |-> row(dates[i])], FALSE)

get_productivity_stats(user_id, days) == stats_rows(tasks, user_id, days)

-----------------------------------------------------------------------------
(* get_streak_data: the query, then the walk over its rows *)

productive_days_backfilled(db, user_id) ==
    LET sel == SelectSeq(db, LAMBDA t : t.user_id = user_id)
        used == {sel[i].date : i \in 1..Len(sel)}
        first == CHOOSE d \in used : \A e \in used : d <= e
        last == CHOOSE d \in used : \A e \in used : d >= e
        grp(d) == SelectSeq(sel, LAMBDA t : t.date = d)
        done(d) == SumSeq([i \in 1..Len(grp(d)) |->
                              IF grp(d)[i].completed = 1 THEN 1 ELSE 0])
    IN  IF sel = <<>> THEN <<>>
        ELSE [i \in 1..(last - first + 1) |->
                 [date |-> first + i - 1,
                  productive_day |->
                      IF Len(grp(first + i - 1)) > 0 /\ done(first + i - 1) > 0
                      THEN 1 ELSE 0]]

productive_days(db, user_id) ==
    LET sel == SelectSeq(db, LAMBDA t : t.user_id = user_id)
        dates == DistinctDates(sel)
        grp(d) == SelectSeq(sel, LAMBDA t : t.date = d)
        done(d) == SumSeq([i \in 1..Len(grp(d)) |->
                              IF grp(d)[i].completed = 1 THEN 1 ELSE 0])
    IN  [i \in 1..Len(dates) |->
            [date |-> dates[i],
             productive_day |->
                 IF Len(grp(dates[i])) > 0 /\ done(dates[i]) > 0 THEN 1 ELSE 0]]

order_by_date_desc_unsorted(rows) == rows

order_by_date_desc(rows) == SortByDate(rows, TRUE)

streak_rows(db, user_id) ==
    Limit(order_by_date_desc(productive_days(db, user_id)), StreakLimit)

RECURSIVE current_streak_no_break(_)
current_streak_no_break(days) ==
    IF days = <<>> THEN 0
    ELSE (IF days[1].productive_day = 1 THEN 1 ELSE 0)
         + current_streak_no_break(Tail(days))

RECURSIVE current_streak(_)
current_streak(days) ==
    IF days = <<>> THEN 0
    ELSE IF days[1].productive_day = 1
         THEN 1 + current_streak(Tail(days))
         ELSE 0

streak_of(db, user_id) == current_streak(streak_rows(db, user_id))

get_streak_data(user_id) == streak_of(tasks, user_id)

-----------------------------------------------------------------------------
(* get_smart_recommendations *)

overdue_count_any_user(db, user_id) ==
    Len(SelectSeq(db, LAMBDA t : /\ t.date < Today
                                 /\ t.completed = 0))

overdue_count_through_today(db, user_id) ==
    Len(SelectSeq(db, LAMBDA t : /\ t.user_id = user_id
                                 /\ t.date <= Today
                                 /\ t.completed = 0))

overdue_count(db, user_id) ==
    Len(SelectSeq(db, LAMBDA t : /\ t.user_id = user_id
                                 /\ t.date < Today
                                 /\ t.completed = 0))

overdue_rule(n) ==
    IF n > 0
    THEN <<[type |-> "warning", action |-> "Review overdue tasks", arg |-> <<n>>]>>
    ELSE <<>>

avg_completion(stats) ==
    LET total_tasks == SumSeq([i \in 1..Len(stats) |-> stats[i].total_tasks])
        completed_tasks == SumSeq([i \in 1..Len(stats) |-> stats[i].completed_tasks])
    IN  IF total_tasks > 0
        THEN [num |-> completed_tasks, den |-> total_tasks]
        ELSE [num |-> 0, den |-> 1]

completion_rule_unguarded(stats) ==
    LET avg == avg_completion(stats)
    IN  IF 10 * avg.num < 6 * avg.den
        THEN <<[type |-> "tip", action |-> "Optimize task planning",
                arg |-> <<avg.num, avg.den>>]>>
        ELSE IF 10 * avg.num > 8 * avg.den
             THEN <<[type |-> "success", action |-> "Maintain momentum",
                     arg |-> <<avg.num, avg.den>>]>>
             ELSE <<>>

completion_rule_inclusive(stats) ==
    IF stats # <<>>
    THEN LET avg == avg_completion(stats)
         IN  IF 10 * avg.num <= 6 * avg.den
             THEN <<[type |-> "tip", action |-> "Optimize task planning",
                     arg |-> <<avg.num, avg.den>>]>>
             ELSE IF 10 * avg.num >= 8 * avg.den
                  THEN <<[type |-> "success", action |-> "Maintain momentum",
                          arg |-> <<avg.num, avg.den>>]>>
                  ELSE <<>>
    ELSE <<>>

completion_rule(stats) ==
    IF stats # <<>>
    THEN LET avg == avg_completion(stats)
         IN  IF 10 * avg.num < 6 * avg.den
             THEN <<[type |-> "tip", action |-> "Optimize task planning",
                     arg |-> <<avg.num, avg.den>>]>>
             ELSE IF 10 * avg.num > 8 * avg.den
                  THEN <<[type |-> "success", action |-> "Maintain momentum",
                          arg |-> <<avg.num, avg.den>>]>>
                  ELSE <<>>
    ELSE <<>>

time_data(db, user_id) ==
    LET sel == SelectSeq(db, LAMBDA t : /\ t.user_id = user_id
                                        /\ t.completed = 1
                                        /\ t.actual_duration # NULL)
        avg(f(_)) == IF sel = <<>> THEN NULL
                     ELSE <<[num |-> SumSeq([i \in 1..Len(sel) |-> f(sel[i])]),
                             den |-> Len(sel)]>>
        actual(t) == t.actual_duration[1]
        estimated(t) == t.estimated_duration
    IN  <<avg(actual), avg(estimated)>>

Truthy(x) == x # NULL /\ x[1].num # 0

time_rule_inclusive(td) ==
    IF /\ Truthy(td[1])
       /\ Truthy(td[2])
       /\ 2 * td[1][1].num * td[2][1].den >= 3 * td[2][1].num * td[1][1].den
    THEN <<[type |-> "insight", action |-> "Improve time estimates", arg |-> <<>>]>>
    ELSE <<>>

time_rule(td) ==
    IF /\ Truthy(td[1])
       /\ Truthy(td[2])
       /\ 2 * td[1][1].num * td[2][1].den > 3 * td[2][1].num * td[1][1].den
    THEN <<[type |-> "insight", action |-> "Improve time estimates", arg |-> <<>>]>>
    ELSE <<>>

recommendations_time_first(n, stats, td) ==
    overdue_rule(n) \o time_rule(td) \o completion_rule(stats)

recommendations(n, stats, td) ==
    overdue_rule(n) \o completion_rule(stats) \o time_rule(td)

recommendations_of(db, user_id) ==
    recommendations(overdue_count(db, user_id),
                    stats_rows(db, user_id, StatsDays),
                    time_data(db, user_id))

get_smart_recommendations(user_id) == recommendations_of(tasks, user_id)

-----------------------------------------------------------------------------
(* Specification *)

Next == AddTask \/ CompleteTask \/ DeleteTask

Spec == Init /\ [][Next]_vars

(* Exploration with recorded actual durations: the day before the window   *)
(* and today                                                               *)

TimedDates == {Today - StatsDays, Today}

AddTaskTimed ==
    /\ next_task_id <= MaxTasks
    /\ \E u \in Users, d \in TimedDates, e \in EstimatedDurations : add_task(u, d, e)

CompleteTaskTimed ==
    \E id \in IssuedTaskIds, a \in ActualDurations : complete_task(id, a)

NextTimed == AddTaskTimed \/ CompleteTaskTimed \/ DeleteTask

SpecTimed == Init /\ [][NextTimed]_vars

(* Completion-rate exploration: one user, two days of the window, more rows *)

RateDates == {Today - 1, Today}

AddTaskRate ==
    /\ next_task_id <= MaxRateTasks
    /\ \E d \in RateDates, e \in EstimatedDurations : add_task(1, d, e)

NextRate == AddTaskRate \/ CompleteTask \/ DeleteTask

SpecRate == Init /\ [][NextRate]_vars

(* Exploration with estimated durations that add_task stores unchecked *)

UncheckedDurations == {-30, 30}

AddTaskUnchecked ==
    /\ next_task_id <= MaxInvalidTasks
    /\ \E u \in Users, d \in RateDates, e \in UncheckedDurations : add_task(u, d, e)

NextUnchecked == AddTaskUnchecked \/ CompleteTask \/ DeleteTask

SpecUnchecked == Init /\ [][NextUnchecked]_vars

-----------------------------------------------------------------------------
(* Habits: add_habit, log_habit, delete_habit *)

HabitRow(id, user_id) ==
    [id |-> id, user_id |-> user_id, streak |-> 0, best_streak |-> 0]

add_habit(user_id) ==
    /\ habits' = Append(habits, HabitRow(next_habit_id, user_id))
    /\ next_habit_id' = next_habit_id + 1
    /\ rendered' = NULL
    /\ UNCHANGED <<habit_logs, next_log_id, task_vars, account_vars, goal_vars, session, clock>>

LogExists(habit_id, date_str) ==
    \E i \in 1..Len(habit_logs) :
        habit_logs[i].habit_id = habit_id /\ habit_logs[i].date = date_str

Max(a, b) == IF a >= b THEN a ELSE b

log_habit_always_inserts(habit_id, date_str, completed, notes) ==
    /\ habit_logs' = Append(habit_logs,
                            [id |-> next_log_id, habit_id |-> habit_id,
                             date |-> date_str,
                             completed |-> IF completed THEN 1 ELSE 0,
                             notes |-> notes])
    /\ next_log_id' = next_log_id + 1
    /\ habits' = [i \in 1..Len(habits) |->
                     IF habits[i].id = habit_id
                     THEN IF completed
                          THEN [habits[i] EXCEPT
                                   !.streak = @ + 1,
                                   !.best_streak = Max(@, habits[i].streak + 1)]
                          ELSE [habits[i] EXCEPT !.streak = 0]
                     ELSE habits[i]]
    /\ rendered' = NULL
    /\ UNCHANGED <<next_habit_id, task_vars, account_vars, goal_vars, session, clock>>

log_habit_best_before_increment(habit_id, date_str, completed, notes) ==
    /\ IF LogExists(habit_id, date_str)
       THEN /\ habit_logs' = [i \in 1..Len(habit_logs) |->
                                 IF /\ habit_logs[i].habit_id = habit_id
                                    /\ habit_logs[i].date = date_str
                                 THEN [habit_logs[i] EXCEPT
                                          !.completed = IF completed THEN 1 ELSE 0,
                                          !.notes = notes]
                                 ELSE habit_logs[i]]
            /\ UNCHANGED next_log_id
       ELSE /\ habit_logs' = Append(habit_logs,
                                    [id |-> next_log_id, habit_id |-> habit_id,
                                     date |-> date_str,
                                     completed |-> IF completed THEN 1 ELSE 0,
                                     notes |-> notes])
            /\ next_log_id' = next_log_id + 1
    /\ habits' = [i \in 1..Len(habits) |->
                     IF habits[i].id = habit_id
                     THEN IF completed
                          THEN [habits[i] EXCEPT
                                   !.streak = @ + 1,
                                   !.best_streak = Max(@, habits[i].streak)]
                          ELSE [habits[i] EXCEPT !.streak = 0]
                     ELSE habits[i]]
    /\ rendered' = NULL
    /\ UNCHANGED <<next_habit_id, task_vars, account_vars, goal_vars, session, clock>>

log_habit(habit_id, date_str, completed, notes) ==
    /\ IF LogExists(habit_id, date_str)
       THEN /\ habit_logs' = [i \in 1..Len(habit_logs) |->
                                 IF /\ habit_logs[i].habit_id = habit_id
                                    /\ habit_logs[i].date = date_str
                                 THEN [habit_logs[i] EXCEPT
                                          !.completed = IF completed THEN 1 ELSE 0,
                                          !.notes = notes]
                                 ELSE habit_logs[i]]
            /\ UNCHANGED next_log_id
       ELSE /\ habit_logs' = Append(habit_logs,
                                    [id |-> next_log_id, habit_id |-> habit_id,
                                     date |-> date_str,
                                     completed |-> IF completed THEN 1 ELSE 0,
                                     notes |-> notes])
            /\ next_log_id' = next_log_id + 1
    /\ habits' = [i \in 1..Len(habits) |->
                     IF habits[i].id = habit_id
                     THEN IF completed
                          THEN [habits[i] EXCEPT
                                   !.streak = @ + 1,
                                   !.best_streak = Max(@, habits[i].streak + 1)]
                          ELSE [habits[i] EXCEPT !.streak = 0]
                     ELSE habits[i]]
    /\ rendered' = NULL
    /\ UNCHANGED <<next_habit_id, task_vars, account_vars, goal_vars, session, clock>>

get_habit_log(habit_id, date_str) ==
    LET sel == SelectSeq(habit_logs, LAMBDA l : /\ l.habit_id = habit_id
                                                /\ l.date = date_str)
    IN  IF sel = <<>> THEN NULL ELSE <<sel[1]>>

delete_habit(habit_id) ==
    /\ habit_logs' = SelectSeq(habit_logs, LAMBDA l : l.habit_id # habit_id)
    /\ habits' = SelectSeq(habits, LAMBDA h : h.id # habit_id)
    /\ rendered' = NULL
    /\ UNCHANGED <<next_habit_id, next_log_id, task_vars, account_vars, goal_vars, session, clock>>

IssuedHabitIds == 1..(next_habit_id - 1)

AddHabit ==
    /\ next_habit_id <= MaxHabits
    /\ \E u \in HabitUsers : add_habit(u)

LogHabit ==
    \E h \in IssuedHabitIds, d \in HabitDates, c \in BOOLEAN, n \in Notes :
        /\ c => \A i \in 1..Len(habits) :
                    habits[i].id = h => habits[i].streak < MaxStreak
        /\ LogExists(h, d) \/ next_log_id <= MaxLogs
        /\ log_habit(h, d, c, n)

DeleteHabit ==
    \E h \in IssuedHabitIds : delete_habit(h)

NextHabits == AddHabit \/ LogHabit \/ DeleteHabit

SpecHabits == Init /\ [][NextHabits]_vars

-----------------------------------------------------------------------------
(* Accounts: register_user, login_user *)

hash_password(password) == <<"sha256", password>>

verify_password(password, hashed) == hash_password(password) = hashed

default_categories == <<"Work", "Personal", "Health", "Learning", "Hobbies">>

UsernameTaken(username) ==
    \E i \in 1..Len(users) : users[i].username = username

register_user_outcome_no_unique(username, password, email) ==
    [ok |-> TRUE,
     users |-> Append(users, [id |-> next_user_id, username |-> username,
                              password |-> hash_password(password),
                              email |-> email]),
     next_user_id |-> next_user_id + 1,
     categories |->
         categories \o
         [k \in 1..Len(default_categories) |->
             [id |-> Len(categories) + k, user_id |-> next_user_id,
              name |-> default_categories[k]]]]

register_user_outcome(username, password, email) ==
    IF UsernameTaken(username)
    THEN [ok |-> FALSE, users |-> users, next_user_id |-> next_user_id,
          categories |-> categories]
    ELSE [ok |-> TRUE,
          users |-> Append(users, [id |-> next_user_id, username |-> username,
                                   password |-> hash_password(password),
                                   email |-> email]),
          next_user_id |-> next_user_id + 1,
          categories |->
              categories \o
              [k \in 1..Len(default_categories) |->
                  [id |-> Len(categories) + k, user_id |-> next_user_id,
                   name |-> default_categories[k]]]]

register_user(username, password, email) ==
    LET r == register_user_outcome(username, password, email)
    IN  /\ users' = r.users
        /\ next_user_id' = r.next_user_id
        /\ categories' = r.categories

login_user_in(table, username, password) ==
    LET sel == SelectSeq(table, LAMBDA r : r.username = username)
    IN  IF sel # <<>> /\ verify_password(password, sel[1].password)
        THEN <<sel[1]>>
        ELSE NULL

login_user(username, password) == login_user_in(users, username, password)

-----------------------------------------------------------------------------
(* Session: the handlers of show_login and the logout button *)

LoggedOut == [user_id |-> NULL, username |-> NULL, page |-> "login"]

LoggedIn(user) ==
    [user_id |-> <<user.id>>, username |-> <<user.username>>, page |-> "dashboard"]

Login ==
    /\ session.page = "login"
    /\ \E username \in Usernames, password \in Passwords :
           LET user == login_user(username, password)
           IN  /\ session' = IF user # NULL THEN LoggedIn(user[1]) ELSE session
               /\ UNCHANGED <<stored_vars, rendered, clock>>

DemoLogin ==
    /\ session.page = "login"
    /\ LET first == login_user("demo", "demo123")
           r == register_user_outcome("demo", "demo123", "demo@example.com")
           second == login_user_in(r.users, "demo", "demo123")
       IN  IF first # NULL
           THEN /\ session' = LoggedIn(first[1])
                /\ UNCHANGED <<stored_vars, rendered, clock>>
           ELSE /\ register_user("demo", "demo123", "demo@example.com")
                /\ rendered' = IF r.ok THEN NULL ELSE rendered
                /\ session' = IF second # NULL THEN LoggedIn(second[1]) ELSE session
                /\ UNCHANGED <<task_vars, habit_vars, goal_vars, clock>>

Register ==
    /\ session.page = "login"
    /\ \E new_username \in Usernames, new_email \in Emails,
          new_password \in Passwords, confirm_password \in Passwords :
           IF new_password = confirm_password
           THEN /\ register_user(new_username, new_password, new_email)
                /\ rendered' =
                       IF register_user_outcome(new_username, new_password,
                                                new_email).ok
                       THEN NULL ELSE rendered
                /\ UNCHANGED <<task_vars, habit_vars, goal_vars, session, clock>>
           ELSE UNCHANGED vars

Logout_keeps_page ==
    /\ session.page # "login"
    /\ session' = [LoggedOut EXCEPT !.page = session.page]
    /\ UNCHANGED <<stored_vars, rendered, clock>>

Logout ==
    /\ session.page # "login"
    /\ session' = LoggedOut
    /\ UNCHANGED <<stored_vars, rendered, clock>>

NextAccounts == Register \/ Login \/ DemoLogin \/ Logout

SpecAccounts == Init /\ [][NextAccounts]_vars

-----------------------------------------------------------------------------
(* Goals *)

GoalRow(id, user_id, target_date) ==
    [id |-> id, user_id |-> user_id, target_date |-> target_date,
     progress |-> 0, completed |-> 0]

add_goal(user_id, target_date) ==
    /\ goals' = Append(goals, GoalRow(next_goal_id, user_id, target_date))
    /\ next_goal_id' = next_goal_id + 1
    /\ rendered' = NULL
    /\ UNCHANGED <<task_vars, account_vars, habit_vars, session, clock>>

AddGoal ==
    /\ next_goal_id <= MaxGoals
    /\ \E user_id \in HabitUsers, target_date \in HabitDates :
           add_goal(user_id, target_date)

-----------------------------------------------------------------------------
(* The analytics calls on a running clock.  get_streak_data never reads the
   clock.  get_smart_recommendations compares task dates with date.today()
   and with date.today() - 6 days and with nothing else, so its result on
   day `day` is its result on day Today over the same rows with every date
   moved back by day - Today. *)

LastDay == Today + 1

Tick ==
    /\ clock < LastDay
    /\ clock' = clock + 1
    /\ UNCHANGED <<stored_vars, session, rendered>>

SeenFrom(db, day) ==
    [i \in 1..Len(db) |-> [db[i] EXCEPT !.date = @ - (day - Today)]]

recommendations_on(db, user_id, day) ==
    recommendations_of(SeenFrom(db, day), user_id)

Returned(fn, user_id, value) ==
    <<[fn |-> fn, user_id |-> user_id, day |-> clock, value |-> value]>>

GetStreakData_consuming ==
    \E user_id \in Users :
        /\ rendered' = Returned("get_streak_data", user_id, get_streak_data(user_id))
        /\ tasks' = SelectSeq(tasks, LAMBDA t : ~(t.user_id = user_id /\ t.completed = 1))
        /\ UNCHANGED <<next_task_id, account_vars, habit_vars, goal_vars, session, clock>>

GetStreakData ==
    \E user_id \in Users :
        /\ rendered' = Returned("get_streak_data", user_id, get_streak_data(user_id))
        /\ UNCHANGED <<stored_vars, session, clock>>

GetSmartRecommendations ==
    \E user_id \in Users :
        /\ rendered' = Returned("get_smart_recommendations", user_id,
                                recommendations_on(tasks, user_id, clock))
        /\ UNCHANGED <<stored_vars, session, clock>>

ReadUsers == {1}

AddTaskRead ==
    /\ next_task_id <= MaxReadTasks
    /\ \E user_id \in ReadUsers, date_ \in RateDates,
          estimated_duration \in EstimatedDurations :
           add_task(user_id, date_, estimated_duration)

NextRead ==
    \/ AddTaskRead
    \/ CompleteTask
    \/ DeleteTask
    \/ AddGoal
    \/ AddHabit
    \/ DemoLogin
    \/ Logout
    \/ Tick
    \/ GetStreakData
    \/ GetSmartRecommendations

SpecRead == Init /\ [][NextRead]_vars

-----------------------------------------------------------------------------
(* Vocabulary of the properties, stated on the stored tasks *)

TasksOf(u) == {i \in 1..Len(tasks) : tasks[i].user_id = u}

TaskDays(u) == {tasks[i].date : i \in TasksOf(u)}

Productive(u, d) ==
    \E i \in TasksOf(u) : tasks[i].date = d /\ tasks[i].completed = 1

BreakDay(u, d) == d \in TaskDays(u) /\ ~Productive(u, d)

CalendarDays == (Today - StatsDays)..(Today + 1)

Types(recs) == [i \in 1..Len(recs) |-> recs[i].type]

HasType(recs, ty) == \E i \in 1..Len(recs) : recs[i].type = ty

Permuted(db, p) == [i \in 1..Len(db) |-> db[p[i]]]

RECURSIVE SumSet(_, _)
SumSet(S, f) ==
    IF S = {} THEN 0
    ELSE LET x == CHOOSE y \in S : TRUE
         IN  f[x] + SumSet(S \ {x}, f)

Overdue(u) == {i \in TasksOf(u) : tasks[i].date < Today /\ tasks[i].completed = 0}

WindowTasks(u) ==
    {i \in TasksOf(u) : tasks[i].date >= Today - (StatsDays - 1) /\ tasks[i].date <= Today}

WindowDone(u) == {i \in WindowTasks(u) : tasks[i].completed = 1}

RateBelow(u) == 10 * Cardinality(WindowDone(u)) < 6 * Cardinality(WindowTasks(u))

RateAbove(u) == 10 * Cardinality(WindowDone(u)) > 8 * Cardinality(WindowTasks(u))

Timed(u) ==
    {i \in TasksOf(u) : tasks[i].completed = 1 /\ tasks[i].actual_duration # NULL}

SumActual(u) ==
    SumSet(Timed(u), [i \in Timed(u) |-> tasks[i].actual_duration[1]])

SumEstimated(u) ==
    SumSet(Timed(u), [i \in Timed(u) |-> tasks[i].estimated_duration])

Underestimating(u) == Timed(u) # {} /\ 2 * SumActual(u) > 3 * SumEstimated(u)

Rank(ty) ==
    CASE ty = "warning" -> 1
      [] ty = "tip" -> 2
      [] ty = "success" -> 2
      [] ty = "insight" -> 3

Bit(b) == IF b THEN 1 ELSE 0

-----------------------------------------------------------------------------
(* Streak *)

\* C1: the streak is the length of the longest all-productive prefix of the
\* daily activity records in descending-day order: k productive records
\* followed by a non-productive one give k, an all-productive input of length
\* N gives N, and no record gives 0.
C1_StreakIsProductivePrefix ==
    \A u \in Users :
        LET r == streak_rows(tasks, u)
        IN  /\ \A i \in 1..(Len(r) - 1) : r[i].date > r[i + 1].date
            /\ \A k \in 0..Len(r) :
                   ( /\ \A i \in 1..k : r[i].productive_day = 1
                     /\ (k = Len(r) \/ r[k + 1].productive_day # 1) )
                   => get_streak_data(u) = k

C1_Witness ==
    \E u \in Users :
        LET r == streak_rows(tasks, u)
        IN  /\ Len(r) = 3
            /\ r[1].productive_day = 1 /\ r[2].productive_day = 1
            /\ r[3].productive_day = 0
            /\ get_streak_data(u) = 2

\* C2: a calendar day without any task never breaks the streak: the streak
\* is the number of productive days that have no later day with a task and
\* no completed task, whatever calendar gaps lie in between (the query keeps
\* at most StreakLimit days).
C2_GapsDoNotBreakStreak ==
    \A u \in Users :
        LET counted == {d \in CalendarDays :
                           /\ Productive(u, d)
                           /\ \A e \in CalendarDays : e > d => ~BreakDay(u, e)}
            n == Cardinality(counted)
        IN  get_streak_data(u) = IF n < StreakLimit THEN n ELSE StreakLimit

C2_Witness ==
    \E u \in Users : \E d1, d2 \in CalendarDays :
        /\ d1 + 1 < d2
        /\ Productive(u, d1) /\ Productive(u, d2)
        /\ \A e \in (d1 + 1)..(d2 - 1) : e \notin TaskDays(u)
        /\ \A e \in CalendarDays : e > d2 => e \notin TaskDays(u)
        /\ next_task_id > Len(tasks) + 1
        /\ get_streak_data(u) = 2

\* C3: the streak does not depend on the order in which the rows reach the
\* calculator: for every permutation of the stored rows (ascending days
\* included) the streak is the one of the rows as stored, because the rows
\* are ordered by day descending before the walk.
C3_StreakOrderIndependent ==
    \A u \in Users :
        \A p \in Permutations(1..Len(tasks)) :
            streak_of(Permuted(tasks, p), u) = get_streak_data(u)

C3_Witness ==
    \E u \in Users :
        LET g == productive_days(tasks, u)
        IN  /\ Len(g) >= 2
            /\ \A i \in 1..(Len(g) - 1) : g[i].date < g[i + 1].date
            /\ g[1].productive_day = 0
            /\ g[Len(g)].productive_day = 1
            /\ get_streak_data(u) >= 1

-----------------------------------------------------------------------------
(* Recommendations *)

\* C4: when every window-stats record has totalTasks = 0 (the summed total
\* is 0) neither the tip nor the success recommendation is emitted, whatever
\* the overdue count and the duration sample are.
C4_NoRateAdviceWithoutTasks ==
    \A u \in Users :
        LET stats == get_productivity_stats(u, StatsDays)
            recs == get_smart_recommendations(u)
        IN  (\A i \in 1..Len(stats) : stats[i].total_tasks = 0)
            => ~HasType(recs, "tip") /\ ~HasType(recs, "success")

C4_Witness ==
    \E u \in Users :
        /\ get_productivity_stats(u, StatsDays) = <<>>
        /\ Types(get_smart_recommendations(u)) = <<"warning", "insight">>

\* C5: the list is ordered overdue warning, completion-rate advisory, time
\* insight, holds at most one recommendation of each of the three categories
\* (never both a tip and a success), and is as long as the number of rules
\* that triggered.
C5_FixedOrderOnePerCategory ==
    \A u \in Users :
        LET recs == get_smart_recommendations(u)
        IN  /\ \A i, j \in 1..Len(recs) :
                   i < j => Rank(recs[i].type) < Rank(recs[j].type)
            /\ Len(recs) <= 3
            /\ ~(HasType(recs, "tip") /\ HasType(recs, "success"))
            /\ Len(recs) = Bit(Overdue(u) # {})
                           + Bit(WindowTasks(u) # {} /\ (RateBelow(u) \/ RateAbove(u)))
                           + Bit(Underestimating(u))

C5_Witness ==
    \E u, v \in Users :
        /\ Len(get_smart_recommendations(u)) = 3
        /\ Types(get_smart_recommendations(v)) = <<>>
        /\ TasksOf(v) # {}

\* C6: with at least one task in the window and rate = completed / total, a
\* tip is emitted exactly when rate < 0.6, a success exactly when rate > 0.8,
\* and nothing for 0.6 <= rate <= 0.8, the two boundaries included.
C6_RateThresholds ==
    \A u \in Users :
        LET recs == get_smart_recommendations(u)
        IN  WindowTasks(u) # {}
            => /\ HasType(recs, "tip") <=> RateBelow(u)
               /\ HasType(recs, "success") <=> RateAbove(u)
               /\ (~RateBelow(u) /\ ~RateAbove(u))
                  => ~HasType(recs, "tip") /\ ~HasType(recs, "success")

C6_Witness ==
    /\ Cardinality(WindowTasks(1)) = 5
    /\ Cardinality(WindowDone(1)) \in {3, 4}
    /\ \E i, j \in WindowTasks(1) : tasks[i].date # tasks[j].date
    /\ get_smart_recommendations(1) = <<>>

C8_OverdueWarning ==
    \A u \in Users :
        LET recs == get_smart_recommendations(u)
        IN  /\ HasType(recs, "warning") <=> Overdue(u) # {}
            /\ \A i \in 1..Len(recs) :
                   recs[i].type = "warning"
                   => recs[i].arg = <<Cardinality(Overdue(u))>>

C8_Witness ==
    \E u \in Users : \E i, j \in TasksOf(u) :
        /\ tasks[i].date < Today /\ tasks[i].completed = 1
        /\ tasks[j].date = Today /\ tasks[j].completed = 0
        /\ next_task_id > Len(tasks) + 1
        /\ ~HasType(get_smart_recommendations(u), "warning")

-----------------------------------------------------------------------------
(* Input validation *)

Rejected == <<[type |-> "InvalidInput", action |-> "", arg |-> <<>>]>>

InvalidStats(stats) ==
    \E i \in 1..Len(stats) :
        \/ stats[i].completed_tasks > stats[i].total_tasks
        \/ stats[i].total_tasks < 0
        \/ stats[i].completed_tasks < 0
        \/ stats[i].planned_time < 0
        \/ stats[i].actual_time < 0

\* C9: a daily stats record with completedTasks > totalTasks or with a
\* negative count is rejected: no recommendation list is computed from it.
C9_InvalidInputRejected ==
    \A u \in Users :
        InvalidStats(get_productivity_stats(u, StatsDays))
        => get_smart_recommendations(u) = Rejected

-----------------------------------------------------------------------------
(* Window statistics *)

\* C10: after any sequence of add_task, complete_task and delete_task every
\* per-day stats record has 0 <= completedTasks <= totalTasks and
\* totalTasks >= 1, and a day of the window has a record exactly when the
\* user has a task on it.
C10_StatsRecordsWellFormed ==
    \A u \in Users :
        LET stats == get_productivity_stats(u, StatsDays)
        IN  /\ \A i \in 1..Len(stats) :
                   /\ 0 <= stats[i].completed_tasks
                   /\ stats[i].completed_tasks <= stats[i].total_tasks
                   /\ stats[i].total_tasks >= 1
            /\ \A d \in CalendarDays :
                   (\E i \in 1..Len(stats) : stats[i].date = d)
                   <=> (\E k \in WindowTasks(u) : tasks[k].date = d)

C10_Witness ==
    \E u \in Users :
        LET stats == get_productivity_stats(u, StatsDays)
        IN  /\ Len(stats) = 1
            /\ stats[1].total_tasks = 2
            /\ stats[1].completed_tasks = 2
            /\ next_task_id > Len(tasks) + 1

-----------------------------------------------------------------------------
(* Streak window *)

\* C11: every daily activity record fed to the streak computation is for a
\* day of the trailing window that ends at (and includes) today, so a task
\* dated after today contributes no record, and a record is productive iff
\* a task of its day is completed.
C11_StreakRecordsInsideWindow ==
    \A u \in Users :
        LET r == streak_rows(tasks, u)
        IN  \A i \in 1..Len(r) :
                /\ r[i].date <= Today
                /\ r[i].date >= Today - (StreakLimit - 1)
                /\ r[i].productive_day = 1 <=> Productive(u, r[i].date)

-----------------------------------------------------------------------------
(* Per-user isolation *)

OnlyUser(db, u) == SelectSeq(db, LAMBDA t : t.user_id = u)

Analytics(db, u) ==
    [streak |-> streak_of(db, u),
     stats |-> stats_rows(db, u, StatsDays),
     recommendations |-> recommendations_of(db, u)]

\* C17: the streak, the window stats and the recommendation list of user u
\* depend only on the tasks whose user_id is u: they equal the results on
\* the store reduced to u's tasks (so two stores that agree on u's tasks
\* give equal results), and add_task for another user leaves them unchanged.
C17_PerUserIsolation ==
    \A u \in Users :
        /\ Analytics(tasks, u) = Analytics(OnlyUser(tasks, u), u)
        /\ \A v \in Users \ {u}, d \in Dates, e \in EstimatedDurations :
               Analytics(Append(tasks, TaskRow(next_task_id, v, d, e)), u)
               = Analytics(tasks, u)

C17_Witness ==
    \E u, v \in Users :
        /\ u # v
        /\ Overdue(v) # {}
        /\ Overdue(u) = {}
        /\ get_streak_data(u) = 1
        /\ get_streak_data(v) = 0
        /\ Types(get_smart_recommendations(u)) = <<"success">>

-----------------------------------------------------------------------------
(* Habits *)

\* C13: for every habit, whatever log_habit calls were made since it was
\* added, 0 <= streak <= best_streak; best_streak never decreases; and a
\* call with completed = false sets streak to 0 and leaves best_streak
\* unchanged.
C13_HabitStreaks ==
    [][ /\ \A j \in 1..Len(habits') :
               /\ 0 <= habits'[j].streak
               /\ habits'[j].streak <= habits'[j].best_streak
        /\ \A i \in 1..Len(habits), j \in 1..Len(habits') :
               habits[i].id = habits'[j].id
               => habits'[j].best_streak >= habits[i].best_streak
        /\ \A h \in IssuedHabitIds, d \in HabitDates, n \in Notes :
               log_habit(h, d, FALSE, n)
               => \A i \in 1..Len(habits), j \in 1..Len(habits') :
                      (habits[i].id = h /\ habits'[j].id = h)
                      => /\ habits'[j].streak = 0
                         /\ habits'[j].best_streak = habits[i].best_streak
      ]_vars

C13_Witness ==
    \E i \in 1..Len(habits) :
        /\ habits[i].streak = 0
        /\ habits[i].best_streak = MaxStreak
        /\ \E k \in 1..Len(habit_logs) :
               habit_logs[k].habit_id = habits[i].id /\ habit_logs[k].completed = 0

\* C14: habit_logs holds at most one row per (habit_id, date): logging a
\* habit again for a date that already has a row updates that row's
\* completed flag and notes and inserts nothing.
C14_OneLogPerHabitAndDate ==
    [][ /\ \A i, j \in 1..Len(habit_logs') :
               ( /\ habit_logs'[i].habit_id = habit_logs'[j].habit_id
                 /\ habit_logs'[i].date = habit_logs'[j].date )
               => i = j
        /\ \A h \in IssuedHabitIds, d \in HabitDates, c \in BOOLEAN, n \in Notes :
               (LogExists(h, d) /\ log_habit(h, d, c, n))
               => /\ Len(habit_logs') = Len(habit_logs)
                  /\ \A i \in 1..Len(habit_logs) :
                         IF habit_logs[i].habit_id = h /\ habit_logs[i].date = d
                         THEN /\ habit_logs'[i].id = habit_logs[i].id
                              /\ habit_logs'[i].completed = (IF c THEN 1 ELSE 0)
                              /\ habit_logs'[i].notes = n
                         ELSE habit_logs'[i] = habit_logs[i]
      ]_vars

C14_Witness ==
    \E i \in 1..Len(habits) :
        /\ habits[i].streak = 2
        /\ Cardinality({k \in 1..Len(habit_logs) :
                           habit_logs[k].habit_id = habits[i].id}) = 1
        /\ \E k \in 1..Len(habit_logs) :
               habit_logs[k].habit_id = habits[i].id /\ habit_logs[k].notes = "note"

-----------------------------------------------------------------------------
(* Session and accounts *)

SessionUser ==
    {i \in 1..Len(users) :
        /\ session.user_id = <<users[i].id>>
        /\ session.username = <<users[i].username>>}

SessionConsistent ==
    /\ session.page \in {"login", "dashboard"}
    /\ session.page = "login" <=> session.user_id = NULL
    /\ session.user_id = NULL => session.username = NULL
    /\ session.user_id # NULL => SessionUser # {}

SessionStep ==
    session' # session =>
        \/ session.page = "dashboard" /\ session' = LoggedOut
        \/ /\ session = LoggedOut
           /\ session'.page = "dashboard"
           /\ \E i \in 1..Len(users') :
                  /\ session'.user_id = <<users'[i].id>>
                  /\ session'.username = <<users'[i].username>>
                  /\ \E password \in Passwords :
                         login_user_in(users', users'[i].username, password) # NULL

\* C15: in every reachable session state page = 'login' iff user_id is None,
\* and then username is None too; the session changes only by a login or demo
\* login that sets user_id, username and page = 'dashboard' together to a
\* registered user with valid credentials, or by a logout that resets all
\* three, so the dashboard is never shown without an authenticated user.
C15_DashboardOnlyWhenLoggedIn ==
    []SessionConsistent /\ [][SessionStep]_vars

C15_Witness ==
    /\ session.page = "dashboard"
    /\ session.username = <<"alice">>
    /\ \E i \in 1..Len(users) :
           users[i].username = "demo" /\ users[i].password # hash_password("demo123")

\* C16: register_user with a username that already exists returns False and
\* adds no user row and no category row; usernames are pairwise distinct;
\* and a successful registration adds exactly one user and exactly five
\* default categories owned by that user.
C16_RegisterUnique ==
    /\ \A i, j \in 1..Len(users) :
           users[i].username = users[j].username => i = j
    /\ \A i \in 1..Len(users) :
           Cardinality({k \in 1..Len(categories) :
                           categories[k].user_id = users[i].id}) = 5
    /\ Len(categories) = 5 * Len(users)
    /\ \A name \in Usernames, pw \in Passwords, em \in Emails :
           LET r == register_user_outcome(name, pw, em)
           IN  IF \E i \in 1..Len(users) : users[i].username = name
               THEN /\ r.ok = FALSE
                    /\ r.users = users
                    /\ r.categories = categories
               ELSE /\ r.ok = TRUE
                    /\ Len(r.users) = Len(users) + 1
                    /\ SubSeq(r.users, 1, Len(users)) = users
                    /\ r.users[Len(r.users)].username = name
                    /\ Len(r.categories) = Len(categories) + 5
                    /\ SubSeq(r.categories, 1, Len(categories)) = categories
                    /\ \A k \in (Len(categories) + 1)..Len(r.categories) :
                           r.categories[k].user_id = r.users[Len(r.users)].id
                    /\ {r.categories[k].name :
                           k \in (Len(categories) + 1)..Len(r.categories)}
                       = {"Work", "Personal", "Health", "Learning", "Hobbies"}

C16_Witness ==
    /\ Len(users) = 2
    /\ Len(categories) = 10
    /\ \E name \in Usernames : ~UsernameTaken(name)

-----------------------------------------------------------------------------
(* Reads *)

ReadStep ==
    /\ rendered' # NULL
    /\ \/ rendered = NULL
       \/ rendered[1].fn # rendered'[1].fn
       \/ rendered[1].user_id # rendered'[1].user_id
       \/ rendered[1].day # rendered'[1].day
       \/ rendered[1].value # rendered'[1].value

ResultOn(fn, user_id, day) ==
    IF fn = "get_streak_data"
    THEN streak_of(tasks, user_id)
    ELSE recommendations_on(tasks, user_id, day)

RepeatableAnyDay ==
    rendered # NULL =>
        rendered[1].value = ResultOn(rendered[1].fn, rendered[1].user_id, clock)

RepeatableSameDay ==
    rendered # NULL =>
        /\ rendered[1].value =
               ResultOn(rendered[1].fn, rendered[1].user_id, rendered[1].day)
        /\ rendered[1].fn = "get_streak_data" =>
               rendered[1].value = ResultOn(rendered[1].fn, rendered[1].user_id, clock)

\* C12 (as stated): computing the streak or the recommendation list leaves
\* every stored task, habit, goal and the session unchanged, and as long as
\* there is no write a further invocation for the same user returns what the
\* last one returned.
C12_ReadsEffectFreeAndRepeatable ==
    /\ [][ReadStep => UNCHANGED <<stored_vars, session>>]_vars
    /\ []RepeatableAnyDay

\* C12 (amended): computing the streak or the recommendation list leaves
\* every stored task, habit, goal and the session unchanged; as long as there
\* is no write a further invocation for the same user returns the same
\* streak, and the same recommendation list when made on the same calendar
\* day.
C12_ReadsEffectFreeRepeatableWithinDay ==
    /\ [][ReadStep => UNCHANGED <<stored_vars, session>>]_vars
    /\ []RepeatableSameDay

C12_Witness ==
    /\ rendered # NULL
    /\ rendered[1].fn = "get_smart_recommendations"
    /\ rendered[1].day = Today
    /\ clock = Today + 1
    /\ rendered[1].value # recommendations_on(tasks, rendered[1].user_id, clock)
    /\ goals # <<>>
    /\ habits # <<>>
    /\ session.page = "dashboard"

====
